---- MODULE Spec2Model ----
(***************************************************************************)
(* Campi feed reader: the registry (Settings), the feeds with their        *)
(* ordered story collections, the per-feed story files and the handlers    *)
(* of the main window that drive them.                                     *)
(*                                                                         *)
(* Python values that can have more than one type are tagged records:      *)
(*   published  [kind, t]   kind "aware" / "naive" (datetime with / without*)
(*                          tzinfo) or "str" (the text "unknown")          *)
(*   note       [str, v]    str = TRUE is the text "0", else the int v     *)
(* A story file and an XML item are records that may lack any key.         *)
(***************************************************************************)
EXTENDS Integers, Sequences, FiniteSets, TLC

\* Longest story file and longest XML document (records / items).
MaxItems == 2
\* Most Feed objects constructed in one process.
MaxFeeds == 2
\* Most Story objects constructed in one process.
MaxStories == 2

VARIABLES
    pc,            \* "boot" before Settings.load_from_filesystem, then "ready";
                   \* "feed", "story", "registry" when the classes are
                   \* called directly
    feedsYml,      \* settings/feeds.yml: sequence of feed stubs
    storyFile,     \* settings/feed_<hash>.yml: feed hash -> sequence of records,
                   \* for the files this process has read or written
    feedObj,       \* the Feed objects, indexed by object identity
    feeds,         \* settings.feeds: sequence of Feed object identities
    feed_hashes,   \* settings.feed_hashes: hash -> Feed object identity
    story_hashes,  \* settings.story_hashes: hash -> Story object identity
    rows,          \* hashes of the rows of the stories table
    last           \* what the last operation did

vars == <<pc, feedsYml, storyFile, feedObj, feeds, feed_hashes, story_hashes,
          rows, last>>

----------------------------------------------------------------------------
\* Values

\* Python's None for an omitted hash argument.
NoHash == "<None>"

Aware(t) == [kind |-> "aware", t |-> t]
Naive(t) == [kind |-> "naive", t |-> t]
StrUnknown == [kind |-> "str", t |-> 0]

IntNote(n) == [str |-> FALSE, v |-> n]
StrNote == [str |-> TRUE, v |-> 0]

\* str.lower() on the alphabet of the model.
Lower(s) ==
    CASE s = "A" -> "a"
      [] s = "B" -> "b"
      [] s = "X" -> "x"
      [] s = "Y" -> "y"
      [] OTHER -> s

\* dict.get(key, default)
Get(d, k, default) == IF k \in DOMAIN d THEN d[k] ELSE default

\* item.find(tag) is not None
Has(d, k) == k \in DOMAIN d

\* m[k] = v on a dict
Put(m, k, v) == [x \in DOMAIN m \cup {k} |-> IF x = k THEN v ELSE m[x]]

EmptyMap == [x \in {} |-> 0]

RECURSIVE SeqsUpTo(_, _)
SeqsUpTo(S, n) ==
    IF n = 0 THEN {<<>>}
    ELSE LET shorter == SeqsUpTo(S, n - 1)
         IN  shorter \cup {Append(s, x) : s \in {q \in shorter : Len(q) = n - 1}, x \in S}

----------------------------------------------------------------------------
\* Inputs: persisted files, HTTP responses, the clock

\* Feed stubs of settings/feeds.yml; any key may be missing.
Stubs ==
    { [title |-> "T", description |-> "D", link |-> "l1", hash |-> "f1"],
      [title |-> "H", link |-> "l2"] }

\* settings/feeds.yml: one feed stored with its hash, or MaxFeeds feeds
\* stored without one.
FeedsYmls ==
    {s \in SeqsUpTo(Stubs, MaxFeeds) :
        \/ Len(s) = 1 /\ Has(s[1], "hash")
        \/ Len(s) = MaxFeeds /\ \A i \in 1..Len(s) : ~Has(s[i], "hash")}

\* Story records of a feed file; any key may be missing and note is whatever
\* the file holds.
Records ==
    { [title |-> "b", published |-> Aware(1), category |-> "c", link |-> "y",
       unread |-> TRUE, note |-> IntNote(-3), hash |-> "p2"],
      [title |-> "A", published |-> Aware(1), category |-> "d", link |-> "X",
       unread |-> TRUE, note |-> IntNote(4), hash |-> "p1"],
      [x \in {} |-> ""] }

StoryFiles == SeqsUpTo(Records, MaxItems)

\* <item> elements: the text of pubDate / submitted is a date with or
\* without a timezone.
Items ==
    { [title |-> "a", pubDate |-> [tz |-> TRUE, t |-> 2], category |-> "c",
       link |-> "x"],
      [category |-> "c"] }

\* Feed-level <title> / <description> of a document.
Header == [title |-> "T", description |-> "D"]
NoHeader == [x \in {} |-> ""]

\* Documents: with the feed-level elements and any items, or without them
\* and with items that have no <title> of their own.
Docs ==
    { [header |-> Header, items |-> i] : i \in SeqsUpTo(Items, MaxItems) }
    \cup { [header |-> NoHeader, items |-> i] :
              i \in SeqsUpTo({it \in Items : ~Has(it, "title")}, MaxItems) }

EmptyDoc == [header |-> NoHeader, items |-> <<>>]

\* What session.get returns: a status, whether the body parses, the document.
Responses ==
    { [status |-> 404, wellFormed |-> FALSE, doc |-> EmptyDoc],
      [status |-> 200, wellFormed |-> FALSE, doc |-> EmptyDoc] }
    \cup { [status |-> 200, wellFormed |-> TRUE, doc |-> d] : d \in Docs }

\* datetime.now(): the present, not before any date of the inputs.
Clock == {2}

----------------------------------------------------------------------------
\* The world a handler runs in: the registry, the objects, the files, the
\* number of save() calls made and whether an exception escaped.

\* Settings.__init__([]): no feed, empty maps (and no file touched yet).
NewWorld ==
    [feedObj |-> <<>>, feeds |-> <<>>, feed_hashes |-> EmptyMap,
     story_hashes |-> EmptyMap, storyFile |-> EmptyMap, saves |-> 0,
     raised |-> FALSE]

World ==
    [feedObj |-> feedObj, feeds |-> feeds, feed_hashes |-> feed_hashes,
     story_hashes |-> story_hashes, storyFile |-> storyFile, saves |-> 0,
     raised |-> FALSE]

RECURSIVE NumStories(_)
NumStories(fo) ==
    IF Len(fo) = 0 THEN 0
    ELSE Len(fo[Len(fo)].stories) + NumStories(SubSeq(fo, 1, Len(fo) - 1))

\* The Story objects that are elements of a feed's list.
Listed(fo) ==
    UNION {{fo[f].stories[i].oid : i \in 1..Len(fo[f].stories)} :
           f \in 1..Len(fo)}

\* How many Story objects there are: those in the lists and those only the
\* registry refers to.
NumObjects(W) ==
    Cardinality(Listed(W.feedObj)
                \cup {W.story_hashes[h] : h \in DOMAIN W.story_hashes})

\* str(uuid4()), retried while the result is a key of `used`.
NewHash(prefix, used) ==
    LET name(n) == prefix \o ToString(n)
        n == CHOOSE k \in 1..(Cardinality(DOMAIN used) + 1) :
                 /\ name(k) \notin DOMAIN used
                 /\ \A j \in 1..(k - 1) : name(j) \in DOMAIN used
    IN  name(n)

----------------------------------------------------------------------------
\* Story (story.py)

\* Story.__init__: the object, registered under its hash in story_hashes.
\* An omitted hash is a fresh uuid; a given one is taken as it is.
StoryInit(W, title, published, category, link, hash) ==
    LET h == IF hash = NoHash THEN NewHash("u", W.story_hashes) ELSE hash
        story == [oid |-> NumObjects(W) + 1, title |-> title,
                  published |-> published, category |-> category,
                  link |-> link, unread |-> TRUE, note |-> IntNote(0),
                  hash |-> h]
    IN  [world |-> [W EXCEPT !.story_hashes = Put(@, h, story.oid)],
         story |-> story]

----------------------------------------------------------------------------
\* Feed (feed.py)

\* Feed.__init__: the object, registered under its hash in feed_hashes.
FeedInit(W, title, description, link, hash) ==
    LET h == IF hash = NoHash THEN NewHash("fu", W.feed_hashes) ELSE hash
        feed == [title |-> title, description |-> description, link |-> link,
                 stories |-> <<>>, loaded |-> FALSE, hash |-> h]
    IN  [W EXCEPT !.feedObj = Append(@, feed),
                  !.feed_hashes = Put(@, h, Len(W.feedObj) + 1)]

\* Two sort keys can be compared: datetimes of the same awareness, or two
\* strings.  Anything else makes `<` raise TypeError.
Comparable(p, q) == p.kind = q.kind

SortRaises(stories) ==
    \E i, j \in 1..Len(stories) :
        ~Comparable(stories[i].published, stories[j].published)

\* Where a story lands in a list sorted by published, descending: behind
\* every story that is not older (the sort is stable).
InsertDesc(sorted, x) ==
    LET k == Cardinality({i \in 1..Len(sorted) :
                              sorted[i].published.t >= x.published.t})
    IN  SubSeq(sorted, 1, k) \o <<x>> \o SubSeq(sorted, k + 1, Len(sorted))

RECURSIVE SortDesc(_)
SortDesc(stories) ==
    IF Len(stories) <= 1 THEN stories
    ELSE InsertDesc(SortDesc(SubSeq(stories, 1, Len(stories) - 1)),
                    stories[Len(stories)])

\* self.stories.sort(key=lambda st: st.published, reverse=True).  A failing
\* comparison leaves the list as it was: with up to three stories the first
\* comparisons that CPython makes include an incomparable pair.
SortStories(stories) ==
    IF SortRaises(stories) THEN stories ELSE SortDesc(stories)

\* The dedup test of add_story_if_needed.
TitleKnown(stories, title) ==
    \E i \in 1..Len(stories) : Lower(stories[i].title) = Lower(title)

LinkKnown(stories, link) ==
    \E i \in 1..Len(stories) : Lower(stories[i].link) = Lower(link)

\* add_story_if_needed without its test on the link.
AddStoryTitleOnly(W, f, a) ==
    IF TitleKnown(W.feedObj[f].stories, a.title) THEN W
    ELSE LET made == StoryInit(W, a.title, a.published, a.category, a.link, a.hash)
             story == [made.story EXCEPT !.unread = a.unread, !.note = a.note]
             appended == Append(W.feedObj[f].stories, story)
         IN  [made.world EXCEPT
                 !.feedObj[f].stories = SortStories(appended),
                 !.raised = SortRaises(appended)]

\* Feed.add_story_if_needed; `a` holds the arguments of the call.
AddStoryIfNeeded(W, f, a) ==
    IF TitleKnown(W.feedObj[f].stories, a.title) THEN W
    ELSE IF LinkKnown(W.feedObj[f].stories, a.link) THEN W
    ELSE LET made == StoryInit(W, a.title, a.published, a.category, a.link, a.hash)
             story == [made.story EXCEPT !.unread = a.unread, !.note = a.note]
             appended == Append(W.feedObj[f].stories, story)
         IN  [made.world EXCEPT
                 !.feedObj[f].stories = SortStories(appended),
                 !.raised = SortRaises(appended)]

\* The list save() dumps: one mapping per story, in list order.
SaveRecords(stories) ==
    [i \in 1..Len(stories) |->
        [title |-> stories[i].title, published |-> stories[i].published,
         category |-> stories[i].category, link |-> stories[i].link,
         unread |-> stories[i].unread, note |-> stories[i].note,
         hash |-> stories[i].hash]]

\* Feed.save
Save(W, f) ==
    [W EXCEPT !.storyFile = Put(@, W.feedObj[f].hash,
                                SaveRecords(W.feedObj[f].stories)),
              !.saves = @ + 1]

\* The content of a feed's story file; a missing file is created empty.
ReadFile(W, f) ==
    IF W.feedObj[f].hash \in DOMAIN W.storyFile
    THEN W.storyFile[W.feedObj[f].hash]
    ELSE <<>>

\* The arguments load_stories_from_filesystem passes for a record.
RecordArgs(rec) ==
    [title |-> Get(rec, "title", "unknown"),
     published |-> Get(rec, "published", StrUnknown),
     category |-> Get(rec, "category", "unknown"),
     link |-> Get(rec, "link", ""),
     unread |-> Get(rec, "unread", TRUE),
     note |-> Get(rec, "note", StrNote),
     hash |-> Get(rec, "hash", "unknown")]

RECURSIVE LoadRecords(_, _, _, _)
LoadRecords(W, f, recs, i) ==
    IF i > Len(recs) \/ W.raised THEN W
    ELSE LoadRecords(AddStoryIfNeeded(W, f, RecordArgs(recs[i])), f, recs, i + 1)

\* Feed.load_stories_from_filesystem
LoadStoriesFromFilesystem(W, f) ==
    LET W1 == LoadRecords(W, f, ReadFile(W, f), 1)
    IN  IF W1.raised THEN W1 ELSE [W1 EXCEPT !.feedObj[f].loaded = TRUE]

\* dateutil.parser.parse on the text of a date element
ParseDate(text) == IF text.tz THEN Aware(text.t) ELSE Naive(text.t)

ItemPublished(item, now) ==
    IF Has(item, "pubDate") THEN ParseDate(item.pubDate)
    ELSE IF Has(item, "submitted") THEN ParseDate(item.submitted)
    ELSE Naive(now)

\* The arguments update_from_XML passes for an item; unread, note and hash
\* are the defaults of add_story_if_needed.
ItemArgs(item, now) ==
    [title |-> Get(item, "title", "unknown"),
     published |-> ItemPublished(item, now),
     category |-> Get(item, "category", "unknown"),
     link |-> Get(item, "link", ""),
     unread |-> TRUE,
     note |-> IntNote(0),
     hash |-> NoHash]

RECURSIVE MergeItems(_, _, _, _, _)
MergeItems(W, f, items, i, now) ==
    IF i > Len(items) \/ W.raised THEN W
    ELSE MergeItems(AddStoryIfNeeded(W, f, ItemArgs(items[i], now)),
                    f, items, i + 1, now)

\* list(parsed.iter("title")): the feed's <title>, then those of the items.
DocTitles(doc) ==
    (IF Has(doc.header, "title") THEN <<doc.header.title>> ELSE <<>>)
    \o SelectSeq([i \in 1..Len(doc.items) |-> Get(doc.items[i], "title", NoHash)],
                 LAMBDA t : t # NoHash)

DocDescriptions(doc) ==
    IF Has(doc.header, "description") THEN <<doc.header.description>> ELSE <<>>

\* Feed.update_from_XML
UpdateFromXML(W, f, doc, now) ==
    LET W1 == IF DocTitles(doc) # <<>>
              THEN [W EXCEPT !.feedObj[f].title = DocTitles(doc)[1]] ELSE W
        W2 == IF DocDescriptions(doc) # <<>>
              THEN [W1 EXCEPT !.feedObj[f].description = DocDescriptions(doc)[1]]
              ELSE W1
        W3 == MergeItems(W2, f, doc.items, 1, now)
    IN  IF W3.raised THEN W3 ELSE Save(W3, f)

\* Feed.load_stories_from_link
LoadStoriesFromLink(W, f, resp, now) ==
    LET W1 == IF resp.status = 200 /\ resp.wellFormed
              THEN UpdateFromXML(W, f, resp.doc, now) ELSE W
    IN  IF W1.raised THEN W1 ELSE Save(W1, f)

\* test_feed constructing the Feed before it parses the body.
TestFeedEager(W, link, resp, now) ==
    IF resp.status = 200
    THEN LET W1 == FeedInit(W, "unknown", "unknown", link, NoHash)
             f == Len(W1.feedObj)
             W2 == UpdateFromXML(W1, f, resp.doc, now)
         IN  IF ~resp.wellFormed THEN [world |-> W1, feed |-> 0]
             ELSE IF W2.raised THEN [world |-> W2, feed |-> 0]
             ELSE [world |-> [W2 EXCEPT !.feeds = Append(@, f)], feed |-> f]
    ELSE [world |-> W, feed |-> 0]

\* Feed.test_feed: the world after it, and the feed returned (0 for None).
TestFeed(W, link, resp, now) ==
    IF resp.status = 200 /\ resp.wellFormed
    THEN LET W1 == FeedInit(W, "unknown", "unknown", link, NoHash)
             f == Len(W1.feedObj)
             W2 == UpdateFromXML(W1, f, resp.doc, now)
         IN  IF W2.raised THEN [world |-> W2, feed |-> 0]
             ELSE [world |-> [W2 EXCEPT !.feeds = Append(@, f)], feed |-> f]
    ELSE [world |-> W, feed |-> 0]

----------------------------------------------------------------------------
\* Story operations (story.py)

\* open_in_browser saving whether or not the story was unread.
OpenInBrowserAlwaysSaves(W, f, i) ==
    Save([W EXCEPT !.feedObj[f].stories[i].unread = FALSE], f)

\* Story.open_in_browser on story i of feed f
OpenInBrowser(W, f, i) ==
    IF W.feedObj[f].stories[i].unread
    THEN Save([W EXCEPT !.feedObj[f].stories[i].unread = FALSE], f)
    ELSE W

\* Story.decrease_note; comparing the text "0" with a number raises TypeError.
DecreaseNote(W, f, i) ==
    LET W1 == [W EXCEPT !.feedObj[f].stories[i].unread = FALSE]
        note == W.feedObj[f].stories[i].note
    IN  IF note.str THEN [W1 EXCEPT !.raised = TRUE]
        ELSE IF note.v > -2
        THEN Save([W1 EXCEPT !.feedObj[f].stories[i].note = IntNote(note.v - 1)], f)
        ELSE W1

\* increase_note with the guard `self.note <= 3`.
IncreaseNoteLoose(W, f, i) ==
    LET W1 == [W EXCEPT !.feedObj[f].stories[i].unread = FALSE]
        note == W.feedObj[f].stories[i].note
    IN  IF note.str THEN [W1 EXCEPT !.raised = TRUE]
        ELSE IF note.v <= 3
        THEN Save([W1 EXCEPT !.feedObj[f].stories[i].note = IntNote(note.v + 1)], f)
        ELSE W1

\* Story.increase_note
IncreaseNote(W, f, i) ==
    LET W1 == [W EXCEPT !.feedObj[f].stories[i].unread = FALSE]
        note == W.feedObj[f].stories[i].note
    IN  IF note.str THEN [W1 EXCEPT !.raised = TRUE]
        ELSE IF note.v < 3
        THEN Save([W1 EXCEPT !.feedObj[f].stories[i].note = IntNote(note.v + 1)], f)
        ELSE W1

\* next_unread scanning stories[index:] instead of stories[index + 1:].
NextUnreadFromSelf(stories, oid) ==
    LET found == {k \in 1..Len(stories) : stories[k].oid = oid}
        index == CHOOSE k \in found : \A j \in found : k <= j
        later == {j \in index..Len(stories) : stories[j].unread}
    IN  IF found = {} THEN [raised |-> TRUE, pos |-> 0]
        ELSE IF later = {} THEN [raised |-> FALSE, pos |-> 0]
        ELSE [raised |-> FALSE, pos |-> CHOOSE j \in later : \A k \in later : j <= k]

\* Story.next_unread of the Story object `oid` whose feed holds `stories`:
\* the position of the story returned (0 for None), or the ValueError of
\* list.index, which `except IndexError` lets through.
NextUnread(stories, oid) ==
    LET found == {k \in 1..Len(stories) : stories[k].oid = oid}
        index == CHOOSE k \in found : \A j \in found : k <= j
        later == {j \in (index + 1)..Len(stories) : stories[j].unread}
    IN  IF found = {} THEN [raised |-> TRUE, pos |-> 0]
        ELSE IF later = {} THEN [raised |-> FALSE, pos |-> 0]
        ELSE [raised |-> FALSE, pos |-> CHOOSE j \in later : \A k \in later : j <= k]

----------------------------------------------------------------------------
\* Settings (settings.py)

RECURSIVE LoadFeeds(_, _, _)
LoadFeeds(W, stubs, i) ==
    IF i > Len(stubs) THEN W
    ELSE LoadFeeds(
            LET W1 == FeedInit(W, Get(stubs[i], "title", "unknown"),
                               Get(stubs[i], "description", "unknown"),
                               Get(stubs[i], "link", "unknown"),
                               Get(stubs[i], "hash", "unknown"))
            IN  [W1 EXCEPT !.feeds = Append(@, Len(W1.feedObj))],
            stubs, i + 1)

\* Settings.load_from_filesystem
LoadFromFilesystem(W, stubs) == LoadFeeds(W, stubs, 1)

\* The list Settings.save dumps.
SaveFeeds(W) ==
    [i \in 1..Len(W.feeds) |->
        [title |-> W.feedObj[W.feeds[i]].title,
         description |-> W.feedObj[W.feeds[i]].description,
         link |-> W.feedObj[W.feeds[i]].link,
         hash |-> W.feedObj[W.feeds[i]].hash]]

----------------------------------------------------------------------------
\* The main window (main.py)

\* The Story object a registry entry refers to: its feed and its position.
FeedOf(fo, oid) ==
    CHOOSE f \in 1..Len(fo) : \E i \in 1..Len(fo[f].stories) : fo[f].stories[i].oid = oid

IndexOf(fo, oid) ==
    CHOOSE i \in 1..Len(fo[FeedOf(fo, oid)].stories) :
        fo[FeedOf(fo, oid)].stories[i].oid = oid

\* update_stories: one row per story of the feed, carrying its hash.
StoryRows(stories) == [i \in 1..Len(stories) |-> stories[i].hash]

Commit(W) ==
    /\ feedObj' = W.feedObj
    /\ feeds' = W.feeds
    /\ feed_hashes' = W.feed_hashes
    /\ story_hashes' = W.story_hashes
    /\ storyFile' = W.storyFile

\* How a response is classified: not 200, 200 with a body that does not
\* parse, 200 with a document.
StatusOf(resp) ==
    IF resp.status # 200 THEN "non200"
    ELSE IF ~resp.wellFormed THEN "malformed" ELSE "ok"

\* MainWindow.on_init_feeds
OnInitFeeds ==
    /\ pc = "boot"
    /\ \E W \in {LoadFromFilesystem(World, feedsYml)} :
           /\ Commit(W)
           /\ last' = [op |-> "handler", raised |-> W.raised]
    /\ pc' = "ready"
    /\ UNCHANGED <<feedsYml, rows>>

\* What a story file may hold when it is read: what this process last read
\* or wrote, else whatever earlier runs or the user left there.
FileInputs(h) == IF h \in DOMAIN storyFile THEN {storyFile[h]} ELSE StoryFiles

\* The feed of row r of the feeds table: self.settings.feed_hashes[row.hash]
RowFeed(r) == feed_hashes[feedObj[feeds[r]].hash]

\* MainWindow.on_select_feeds on row r of the feeds table
OnSelectFeeds(r, resp, now) ==
    /\ pc = "ready"
    /\ \E content \in FileInputs(feedObj[RowFeed(r)].hash) :
       LET f == RowFeed(r)
           W0 == [World EXCEPT !.storyFile = Put(@, feedObj[f].hash, content)]
       IN  \E W1 \in {IF ~feedObj[f].loaded
                       THEN LoadStoriesFromFilesystem(W0, f) ELSE W0} :
           \E W2 \in {IF W1.raised THEN W1
                       ELSE LoadStoriesFromLink(W1, f, resp, now)} :
           /\ NumStories(W2.feedObj) <= MaxStories
           /\ Commit(W2)
           /\ rows' = IF W2.raised THEN rows ELSE StoryRows(W2.feedObj[f].stories)
           /\ last' = [op |-> "handler", raised |-> W2.raised]
    /\ UNCHANGED <<pc, feedsYml>>

\* MainWindow.on_add_feed with the link typed in the dialog
OnAddFeed(link, resp, now) ==
    /\ pc = "ready"
    /\ \E got \in {TestFeed(World, link, resp, now)} :
       LET W == got.world
       IN  /\ Len(W.feedObj) <= MaxFeeds
           /\ NumStories(W.feedObj) <= MaxStories
           /\ Commit(W)
           /\ feedsYml' = IF got.feed # 0 THEN SaveFeeds(W) ELSE feedsYml
           /\ last' = [op |-> "handler", raised |-> W.raised]
    /\ UNCHANGED <<pc, rows>>

\* The Story object of row r of the stories table:
\* self.settings.story_hashes[row.hash]
RowStory(r) == story_hashes[rows[r]]

\* MainWindow.on_press_return_in_stories on row r of the stories table
OnPressReturn(r) ==
    /\ pc = "ready"
    /\ \E W \in {OpenInBrowser(World, FeedOf(feedObj, RowStory(r)),
                               IndexOf(feedObj, RowStory(r)))} :
           /\ Commit(W)
           /\ last' = [op |-> "handler", raised |-> W.raised]
    /\ UNCHANGED <<pc, feedsYml, rows>>

\* MainWindow.on_press_left_in_stories
OnPressLeft(r) ==
    /\ pc = "ready"
    /\ \E W \in {DecreaseNote(World, FeedOf(feedObj, RowStory(r)),
                              IndexOf(feedObj, RowStory(r)))} :
           /\ Commit(W)
           /\ last' = [op |-> "handler", raised |-> W.raised]
    /\ UNCHANGED <<pc, feedsYml, rows>>

\* MainWindow.on_press_right_in_stories
OnPressRight(r) ==
    /\ pc = "ready"
    /\ \E W \in {IncreaseNote(World, FeedOf(feedObj, RowStory(r)),
                              IndexOf(feedObj, RowStory(r)))} :
           /\ Commit(W)
           /\ last' = [op |-> "handler", raised |-> W.raised]
    /\ UNCHANGED <<pc, feedsYml, rows>>

\* The links typed in the dialog.
CandidateLinks == {"l5"}

NoOp == [op |-> "none", raised |-> FALSE]

Init ==
    /\ pc = "boot"
    /\ feedsYml \in FeedsYmls
    /\ storyFile = EmptyMap
    /\ feedObj = <<>>
    /\ feeds = <<>>
    /\ feed_hashes = EmptyMap
    /\ story_hashes = EmptyMap
    /\ rows = <<>>
    /\ last = NoOp

Next ==
    \/ OnInitFeeds
    \/ \E r \in 1..Len(feeds), resp \in Responses, now \in Clock :
          OnSelectFeeds(r, resp, now)
    \/ \E link \in CandidateLinks, resp \in Responses, now \in Clock :
          OnAddFeed(link, resp, now)
    \/ \E r \in 1..Len(rows) : OnPressReturn(r)
    \/ \E r \in 1..Len(rows) : OnPressLeft(r)
    \/ \E r \in 1..Len(rows) : OnPressRight(r)

\* The program: the handlers of the main window, in any order.
Spec == Init /\ [][Next]_vars

----------------------------------------------------------------------------
\* Feed called directly: add_story_if_needed, Story.next_unread, and
\* save() followed by a load into a fresh feed of the same hash.

\* The registry with the one feed of a feeds.yml.
OneFeed ==
    LoadFromFilesystem(NewWorld,
        <<[title |-> "T", description |-> "D", link |-> "l1", hash |-> "f1"]>>)

\* An item whose title is that of one story and whose link is, but for the
\* case, that of another.
CrossItems ==
    {[title |-> "b", pubDate |-> [tz |-> TRUE, t |-> 1], category |-> "c",
      link |-> "X"]}

\* Arguments of add_story_if_needed: those a record or an item gives, with
\* either value of unread.
InsertArgs ==
    LET base == {RecordArgs(rec) : rec \in Records}
                \cup {ItemArgs(item, now) : item \in Items \cup CrossItems,
                                            now \in Clock}
    IN  {[a EXCEPT !.unread = u] : a \in base, u \in BOOLEAN}

InitFeed ==
    /\ pc = "feed"
    /\ feedsYml = <<>>
    /\ storyFile = OneFeed.storyFile
    /\ feedObj = OneFeed.feedObj
    /\ feeds = OneFeed.feeds
    /\ feed_hashes = OneFeed.feed_hashes
    /\ story_hashes = OneFeed.story_hashes
    /\ rows = <<>>
    /\ last = NoOp

\* feed.add_story_if_needed(...)
ApiAddStory(f, a) ==
    /\ pc = "feed"
    /\ \E W \in {AddStoryIfNeeded(World, f, a)} :
           /\ Commit(W)
           /\ last' = [op |-> "add", raised |-> W.raised,
                       skipped |-> TitleKnown(feedObj[f].stories, a.title)
                                   \/ LinkKnown(feedObj[f].stories, a.link)]
    /\ UNCHANGED <<pc, feedsYml, rows>>

\* story.next_unread for story i of feed f
ApiNextUnread(f, i) ==
    /\ pc = "feed"
    /\ last' = [op |-> "next_unread", raised |-> FALSE, feed |-> f, index |-> i,
                result |-> NextUnread(feedObj[f].stories, feedObj[f].stories[i].oid)]
    /\ UNCHANGED <<pc, feedsYml, storyFile, feedObj, feeds, feed_hashes,
                   story_hashes, rows>>

\* The arguments of a Story built by a caller, outside add_story_if_needed,
\* under a hash of the caller's.
DetachedArgs ==
    {[ItemArgs(item, now) EXCEPT !.hash = "d1"] : item \in Items, now \in Clock}

\* Story(settings, feed, ...) built directly, so that it is in no list, and
\* its next_unread evaluated.  One such story per registry.
ApiNextUnreadDetached(f, a) ==
    /\ pc = "feed"
    /\ {story_hashes[h] : h \in DOMAIN story_hashes} \subseteq Listed(feedObj)
    /\ \E made \in {StoryInit(World, a.title, a.published, a.category, a.link,
                              a.hash)} :
           /\ Commit(made.world)
           /\ last' = [op |-> "next_unread_detached", feed |-> f,
                       raised |-> NextUnread(feedObj[f].stories, made.story.oid).raised,
                       result |-> NextUnread(feedObj[f].stories, made.story.oid)]
    /\ UNCHANGED <<pc, feedsYml, rows>>

\* The feed saved, then a new registry with a new Feed of the same hash
\* that loads the file.
SaveReload(W, f) ==
    LET saved == Save(W, f)
        old == W.feedObj[f]
        fresh == FeedInit([NewWorld EXCEPT !.storyFile = saved.storyFile],
                          old.title, old.description, old.link, old.hash)
    IN  LoadStoriesFromFilesystem([fresh EXCEPT !.feeds = <<1>>], 1)

\* feed.save(), then Feed(...).load_stories_from_filesystem()
ApiSaveReload(f) ==
    /\ pc = "feed"
    /\ \E W \in {SaveReload(World, f)} :
           /\ Commit(W)
           /\ last' = [op |-> "reload", raised |-> W.raised]
    /\ UNCHANGED <<pc, feedsYml, rows>>

NextFeed ==
    \/ \E f \in 1..Len(feedObj), a \in InsertArgs : ApiAddStory(f, a)
    \/ \E f \in 1..Len(feedObj) : \E i \in 1..Len(feedObj[f].stories) : ApiNextUnread(f, i)
    \/ \E f \in 1..Len(feedObj) : ApiSaveReload(f)
    \/ \E f \in 1..Len(feedObj), a \in DetachedArgs : ApiNextUnreadDetached(f, a)

\* A feed driven through its own operations.
SpecFeed == InitFeed /\ [][NextFeed]_vars

----------------------------------------------------------------------------
\* Story called directly, on the stories of a feed that is loaded and
\* refreshed.

InitStory ==
    /\ pc = "story"
    /\ feedsYml = <<>>
    /\ storyFile = OneFeed.storyFile
    /\ feedObj = OneFeed.feedObj
    /\ feeds = OneFeed.feeds
    /\ feed_hashes = OneFeed.feed_hashes
    /\ story_hashes = OneFeed.story_hashes
    /\ rows = <<>>
    /\ last = NoOp

StoryDone(op, f, i, W) ==
    [op |-> op, feed |-> f, index |-> i, saves |-> W.saves, raised |-> W.raised]

\* feed.load_stories_from_filesystem()
ApiLoad(f) ==
    /\ pc = "story"
    /\ ~feedObj[f].loaded
    /\ \E content \in FileInputs(feedObj[f].hash) :
       \E W \in {LoadStoriesFromFilesystem(
                    [World EXCEPT !.storyFile = Put(@, feedObj[f].hash, content)], f)} :
           /\ NumStories(W.feedObj) <= MaxStories
           /\ Commit(W)
           /\ last' = StoryDone("load", f, 0, W)
    /\ UNCHANGED <<pc, feedsYml, rows>>

\* feed.load_stories_from_link(session)
ApiRefresh(f, resp, now) ==
    /\ pc = "story"
    /\ \E W \in {LoadStoriesFromLink(World, f, resp, now)} :
           /\ NumStories(W.feedObj) <= MaxStories
           /\ Commit(W)
           /\ last' = StoryDone("refresh", f, 0, W)
    /\ UNCHANGED <<pc, feedsYml, rows>>

\* story.open_in_browser()
ApiOpen(f, i) ==
    /\ pc = "story"
    /\ \E W \in {OpenInBrowser(World, f, i)} :
           /\ Commit(W)
           /\ last' = StoryDone("open", f, i, W)
    /\ UNCHANGED <<pc, feedsYml, rows>>

\* story.decrease_note()
ApiDecrease(f, i) ==
    /\ pc = "story"
    /\ \E W \in {DecreaseNote(World, f, i)} :
           /\ Commit(W)
           /\ last' = StoryDone("decrease", f, i, W)
    /\ UNCHANGED <<pc, feedsYml, rows>>

\* story.increase_note()
ApiIncrease(f, i) ==
    /\ pc = "story"
    /\ \E W \in {IncreaseNote(World, f, i)} :
           /\ Commit(W)
           /\ last' = StoryDone("increase", f, i, W)
    /\ UNCHANGED <<pc, feedsYml, rows>>

NextStory ==
    \/ \E f \in 1..Len(feedObj) : ApiLoad(f)
    \/ \E f \in 1..Len(feedObj), resp \in Responses, now \in Clock :
          ApiRefresh(f, resp, now)
    \/ \E f \in 1..Len(feedObj) : \E i \in 1..Len(feedObj[f].stories) : ApiOpen(f, i)
    \/ \E f \in 1..Len(feedObj) : \E i \in 1..Len(feedObj[f].stories) : ApiDecrease(f, i)
    \/ \E f \in 1..Len(feedObj) : \E i \in 1..Len(feedObj[f].stories) : ApiIncrease(f, i)

\* The stories of a feed driven through their own operations.
SpecStory == InitStory /\ [][NextStory]_vars

----------------------------------------------------------------------------
\* The registry called directly: Settings.load_from_filesystem, then
\* Feed.test_feed and Settings.save.

InitRegistry ==
    /\ pc = "registry"
    /\ feedsYml \in SeqsUpTo(Stubs, MaxFeeds)
    /\ storyFile = EmptyMap
    /\ feedObj = LoadFromFilesystem(NewWorld, feedsYml).feedObj
    /\ feeds = LoadFromFilesystem(NewWorld, feedsYml).feeds
    /\ feed_hashes = LoadFromFilesystem(NewWorld, feedsYml).feed_hashes
    /\ story_hashes = EmptyMap
    /\ rows = <<>>
    /\ last = NoOp

\* Feed.test_feed(session, settings, link)
ApiTestFeed(link, resp, now) ==
    /\ pc = "registry"
    /\ \E got \in {TestFeed(World, link, resp, now)} :
           /\ Len(got.world.feedObj) <= MaxFeeds
           /\ Commit(got.world)
           /\ last' = [op |-> "test_feed", raised |-> got.world.raised,
                       status |-> StatusOf(resp), returned |-> got.feed]
    /\ UNCHANGED <<pc, feedsYml, rows>>

\* settings.save()
ApiSaveSettings ==
    /\ pc = "registry"
    /\ feedsYml' = SaveFeeds(World)
    /\ last' = [op |-> "save_settings", raised |-> FALSE]
    /\ UNCHANGED <<pc, storyFile, feedObj, feeds, feed_hashes, story_hashes, rows>>

NextRegistry ==
    \/ \E link \in CandidateLinks, resp \in Responses, now \in Clock :
          ApiTestFeed(link, resp, now)
    \/ ApiSaveSettings

\* The registry driven through discovery.
SpecRegistry == InitRegistry /\ [][NextRegistry]_vars

----------------------------------------------------------------------------
\* Properties of the program

\* A publication value that is a datetime (not the text "unknown").
IsDate(p) == p.kind # "str"

\* C2: every feed's stories are ordered by publication time, newest first:
\* of two neighbours that both carry a datetime, the first is not older.
C2_SortedByPublished ==
    \A f \in 1..Len(feedObj) :
        \A i \in 1..(Len(feedObj[f].stories) - 1) :
            LET p == feedObj[f].stories[i].published
                q == feedObj[f].stories[i + 1].published
            IN  IsDate(p) /\ IsDate(q) => p.t >= q.t

\* C3: every story's rating is an integer between -3 and 3 (a rating that
\* is the default text "0" is left out of the statement).
C3_RatingInRange ==
    \A f \in 1..Len(feedObj) :
        \A i \in 1..Len(feedObj[f].stories) :
            LET note == feedObj[f].stories[i].note
            IN  ~note.str => note.v \in -3..3

\* C5: every refresh attempt (the feed's stories were loaded, so the GET
\* was made and answered) ends with the feed's story file holding the
\* feed's current story list.
C5_RefreshAlwaysSaves ==
    [][\A r \in 1..Len(feeds), resp \in Responses, now \in Clock :
          OnSelectFeeds(r, resp, now) /\ feedObj'[RowFeed(r)].loaded
          => /\ feedObj[RowFeed(r)].hash \in DOMAIN storyFile'
             /\ storyFile'[feedObj[RowFeed(r)].hash]
                  = SaveRecords(feedObj'[RowFeed(r)].stories)]_vars

\* C7: every feed of the feed list and every story of such a feed is the
\* object its own identifier maps to in the registry.
C7_RegistryConsistent ==
    \A r \in 1..Len(feeds) :
        /\ feedObj[feeds[r]].hash \in DOMAIN feed_hashes
        /\ feed_hashes[feedObj[feeds[r]].hash] = feeds[r]
        /\ \A i \in 1..Len(feedObj[feeds[r]].stories) :
              LET story == feedObj[feeds[r]].stories[i]
              IN  /\ story.hash \in DOMAIN story_hashes
                  /\ story_hashes[story.hash] = story.oid

----------------------------------------------------------------------------
\* Properties of a feed driven through its own operations (SpecFeed)

\* C1: an insert whose title or link matches, whatever the case, that of a
\* story already in the feed changes nothing: the story collection (length,
\* order, every story's unread flag, rating and hash) and the registry's
\* maps stay as they were.
C1_DuplicateInsertIsNoOp ==
    [][\A f \in 1..Len(feedObj), a \in InsertArgs :
          /\ last'.op = "add" /\ last'.skipped
          /\ \E i \in 1..Len(feedObj[f].stories) :
                \/ Lower(feedObj[f].stories[i].title) = Lower(a.title)
                \/ Lower(feedObj[f].stories[i].link) = Lower(a.link)
          /\ ApiAddStory(f, a)
          => UNCHANGED <<feedObj, story_hashes, feed_hashes, storyFile>>]_vars

\* A duplicate was offered to a feed that holds stories.
C1_Witness ==
    /\ last.op = "add"
    /\ last.skipped
    /\ Len(feedObj[1].stories) >= 2

\* What a story collection holds, but for its order and the dates.
Tuples(stories) ==
    {<<stories[i].title, stories[i].link, stories[i].category,
       stories[i].unread, stories[i].note, stories[i].hash>> :
        i \in 1..Len(stories)}

\* C8: save() followed by a load into a new feed of the same hash gives a
\* collection with the same set of (title, link, category, unread, rating,
\* hash) tuples as the one saved.
C8_SaveReloadKeepsTuples ==
    [][\A f \in 1..Len(feedObj) :
          ApiSaveReload(f)
          => Tuples(feedObj'[1].stories) = Tuples(feedObj[f].stories)]_vars

\* C9: next_unread of the story at position i is the story at the smallest
\* position j > i that is unread, and None when there is none; nothing at
\* or before i counts.
C9_NextUnreadIsFirstLater ==
    last.op = "next_unread" =>
        LET stories == feedObj[last.feed].stories
            later == {j \in 1..Len(stories) : j > last.index /\ stories[j].unread}
        IN  /\ ~last.result.raised
            /\ later = {} => last.result.pos = 0
            /\ later # {} => /\ last.result.pos \in later
                             /\ \A j \in later : last.result.pos <= j

\* A unread, B read, C unread: B was asked and gave C.
C9_Witness ==
    /\ last.op = "next_unread"
    /\ Len(feedObj[1].stories) = 3
    /\ feedObj[1].stories[1].unread
    /\ ~feedObj[1].stories[2].unread
    /\ feedObj[1].stories[3].unread
    /\ last.index = 2
    /\ last.result.pos = 3

\* C12: next_unread of a story that is not in its feed's list is None, and
\* no exception leaves the call.
C12_DetachedYieldsNone ==
    last.op = "next_unread_detached" =>
        ~last.result.raised /\ last.result.pos = 0

----------------------------------------------------------------------------
\* Properties of the stories driven through their own operations (SpecStory)

\* C4, as stated, for the ratings -3..3: increase at 3 and decrease at -2
\* change nothing and save nothing; every other call changes the rating by
\* exactly 1 and saves once.
C4_OnlyTwoBoundaries ==
    [][\A f \in 1..Len(feedObj) : \A i \in 1..Len(feedObj[f].stories) :
          LET note == feedObj[f].stories[i].note
              after == feedObj'[f].stories[i].note
              kept == after = note /\ last'.saves = 0
              moved(d) == after = IntNote(note.v + d) /\ last'.saves = 1
          IN  ~note.str /\ note.v \in -3..3
              => /\ last'.op = "increase" /\ ApiIncrease(f, i)
                    => IF note.v = 3 THEN kept ELSE moved(1)
                 /\ last'.op = "decrease" /\ ApiDecrease(f, i)
                    => IF note.v = -2 THEN kept ELSE moved(-1)]_vars

\* C4: increase adds 1 to the rating and saves once exactly when the rating
\* is a number below 3; decrease subtracts 1 and saves once exactly when it
\* is a number above -2; any other call leaves the rating as it is and saves
\* nothing.
C4_RatingStep ==
    [][\A f \in 1..Len(feedObj) : \A i \in 1..Len(feedObj[f].stories) :
          LET note == feedObj[f].stories[i].note
              after == feedObj'[f].stories[i].note
              kept == after = note /\ last'.saves = 0
              moved(d) == after = IntNote(note.v + d) /\ last'.saves = 1
          IN  /\ last'.op = "increase" /\ ApiIncrease(f, i)
                 => IF ~note.str /\ note.v < 3 THEN moved(1) ELSE kept
              /\ last'.op = "decrease" /\ ApiDecrease(f, i)
                 => IF ~note.str /\ note.v > -2 THEN moved(-1) ELSE kept]_vars

\* decrease_note was called on a story rated -3: nothing moved, nothing saved.
C4_Witness ==
    /\ last.op = "decrease"
    /\ last.saves = 0
    /\ feedObj[last.feed].stories[last.index].note = IntNote(-3)

\* C10: open_in_browser on an unread story clears unread and saves the feed
\* once; on a read story it changes nothing and saves nothing.  The story is
\* read after either call, so a second call is of the second kind.
C10_OpenIsIdempotent ==
    [][\A f \in 1..Len(feedObj) : \A i \in 1..Len(feedObj[f].stories) :
          last'.op = "open" /\ ApiOpen(f, i)
          => /\ ~feedObj'[f].stories[i].unread
             /\ IF feedObj[f].stories[i].unread
                THEN /\ feedObj' = [feedObj EXCEPT ![f].stories[i].unread = FALSE]
                     /\ last'.saves = 1
                     /\ storyFile' = Put(storyFile, feedObj[f].hash,
                                         SaveRecords(feedObj'[f].stories))
                ELSE /\ UNCHANGED <<feedObj, storyFile, feed_hashes, story_hashes>>
                     /\ last'.saves = 0]_vars

\* open_in_browser was called on a story already read.
C10_Witness ==
    /\ last.op = "open"
    /\ last.saves = 0
    /\ ~feedObj[last.feed].stories[last.index].unread

\* C11: a load of any story file, and a merge of any document, into a feed
\* that holds no story completes without raising, whichever fields its
\* records or items lack; the load then marks the feed loaded.
C11_AbsentFieldsNeverRaise ==
    [][\A f \in 1..Len(feedObj) :
          feedObj[f].stories = <<>>
          => /\ last'.op = "load" /\ ApiLoad(f)
                => ~last'.raised /\ feedObj'[f].loaded
             /\ \A resp \in Responses, now \in Clock :
                   last'.op = "refresh" /\ ApiRefresh(f, resp, now)
                   => ~last'.raised]_vars

\* C13: once open_in_browser, increase_note or decrease_note has returned
\* on a story of a loaded feed whose rating is within -3..3, the feed's
\* story file holds, for every story of the feed, a record with that story's
\* hash, title, unread flag and rating.
C13_MutationIsPersisted ==
    /\ last.op \in {"open", "increase", "decrease"}
    /\ ~last.raised
    /\ feedObj[last.feed].loaded
    /\ feedObj[last.feed].stories[last.index].note.v \in -3..3
    => LET stories == feedObj[last.feed].stories
           file == IF feedObj[last.feed].hash \in DOMAIN storyFile
                   THEN storyFile[feedObj[last.feed].hash] ELSE <<>>
       IN  \A i \in 1..Len(stories) : \E k \in 1..Len(file) :
               /\ RecordArgs(file[k]).hash = stories[i].hash
               /\ RecordArgs(file[k]).title = stories[i].title
               /\ RecordArgs(file[k]).unread = stories[i].unread
               /\ RecordArgs(file[k]).note = stories[i].note

----------------------------------------------------------------------------
\* Properties of the registry driven through discovery (SpecRegistry)

\* C6: test_feed on a response that is not 200, or whose body does not
\* parse, returns None and leaves the feed list and both maps as they were;
\* a feed is returned, or the feed list changed, only on a 200 with a body
\* that parses, and then that one new feed is appended to the list, entered
\* in feed_hashes under its own hash, and returned.
C6_TestFeedRegisters ==
    [][\A link \in CandidateLinks, resp \in Responses, now \in Clock :
          last'.op = "test_feed" /\ ApiTestFeed(link, resp, now)
          => LET got == last'.returned
             IN  /\ StatusOf(resp) # "ok"
                    => /\ got = 0
                       /\ UNCHANGED <<feeds, feed_hashes, story_hashes, feedObj>>
                 /\ feeds' # feeds => got # 0
                 /\ got # 0
                    => /\ StatusOf(resp) = "ok"
                       /\ got \notin {feeds[r] : r \in 1..Len(feeds)}
                       /\ feeds' = Append(feeds, got)
                       /\ feedObj'[got].hash \notin DOMAIN feed_hashes
                       /\ feed_hashes' = Put(feed_hashes, feedObj'[got].hash, got)]_vars

\* test_feed failed on a registry that holds a feed.
C6_Witness ==
    /\ last.op = "test_feed"
    /\ last.status \in {"non200", "malformed"}
    /\ last.returned = 0
    /\ Len(feeds) >= 1

====
